---- MODULE Spec2Model ----
(***************************************************************************)
(* Model of package qr (src/qr/qr.go): the construction of a QR Plan by    *)
(* NewPlan = vplan ; fplan ; lplan ; mplan over a grid of packed Pixels.   *)
(*                                                                         *)
(* A Pixel is the uint32 the code uses: bit 0 Black, bit 1 Invert,         *)
(* bits 2-4 the role, bits 5.. the offset.  The grid m is a function from  *)
(* row index to a function from column index to Pixel, indexed from 0 as   *)
(* the Go slices are: m[y][x].                                             *)
(*                                                                         *)
(* uint32 values whose high bits matter (the format word of fplan) are     *)
(* kept as the set of their set bit positions, a subset of 0..31, so that  *)
(* shifts truncate at 32 bits as they do in Go.                            *)
(***************************************************************************)
EXTENDS Integers, FiniteSets, Sequences, TLC

(***************************************************************************)
(* Bounds of the exploration.                                              *)
(***************************************************************************)
\* how far outside their valid ranges the arguments of NewPlan are drawn
OutOfRange == 1
\* largest side of the grids handed to mplan on its own
MaskSide == 4

(***************************************************************************)
(* Pixel model.                                                            *)
(***************************************************************************)
Black == 1
Invert == 2

Position == 1
Alignment == 2
Timing == 3
Format == 4
Data == 5
Check == 6

\* func (p Pixel) Offset() int
Offset(p) == p \div 32

\* func OffsetPixel(o int) Pixel
OffsetPixel(o) == o * 32

\* func (r PixelRole) Pixel() Pixel
RolePixel(r) == r * 4

\* func (p Pixel) Role() PixelRole
Role(p) == (p \div 4) % 8

\* p&Black != 0
IsBlack(p) == p % 2 = 1

\* p&Invert != 0
IsInvert(p) == (p \div 2) % 2 = 1

\* p | Black
OrBlack(p) == IF IsBlack(p) THEN p ELSE p + Black

\* p | Invert
OrInvert(p) == IF IsInvert(p) THEN p ELSE p + Invert

\* p ^ (Invert | Black): the two low bits are complemented
XorInvertBlack(p) == (p \div 4) * 4 + (3 - (p % 4))

(***************************************************************************)
(* Levels.  In the const block only L carries an expression; M, Q and H    *)
(* repeat it (there is no iota in it), so all four constants are 0.        *)
(***************************************************************************)
L == 0
M == 0
Q == 0
H == 0

(***************************************************************************)
(* uint32 arithmetic on bit sets.                                          *)
(***************************************************************************)
Pow2(n) == 2 ^ n

\* the bits of a non-negative int below 2^31
NatBits(n) == {i \in 0..30 : (n \div Pow2(i)) % 2 = 1}

\* uint32(n) of a Go int n (two's complement for negative n)
U32(n) == IF n >= 0 THEN NatBits(n) ELSE (0..31) \ NatBits((0 - n) - 1)

\* a << k in uint32
Shl(a, k) == {b + k : b \in {c \in a : c + k <= 31}}

\* a ^ b
XorBits(a, b) == (a \ b) \cup (b \ a)

\* n ^ 1 on a Go int
XorOne(n) == IF n % 2 = 0 THEN n + 1 ELSE n - 1

(***************************************************************************)
(* The per-version table.                                                  *)
(***************************************************************************)
MinVersion == 1
MaxVersion == 40

vtab ==
  [v \in 0..40 |->
     CASE v = 0 -> [apos |-> 0, astride |-> 0]
       [] v = 1 -> [apos |-> 100, astride |-> 100]
       [] v = 2 -> [apos |-> 16, astride |-> 100]
       [] v = 3 -> [apos |-> 20, astride |-> 100]
       [] v = 4 -> [apos |-> 24, astride |-> 100]
       [] v = 5 -> [apos |-> 28, astride |-> 100]
       [] v = 6 -> [apos |-> 32, astride |-> 100]
       [] v = 7 -> [apos |-> 20, astride |-> 16]
       [] v = 8 -> [apos |-> 22, astride |-> 18]
       [] v = 9 -> [apos |-> 24, astride |-> 20]
       [] v = 10 -> [apos |-> 26, astride |-> 22]
       [] v = 11 -> [apos |-> 28, astride |-> 24]
       [] v = 12 -> [apos |-> 30, astride |-> 26]
       [] v = 13 -> [apos |-> 32, astride |-> 28]
       [] v = 14 -> [apos |-> 24, astride |-> 20]
       [] v = 15 -> [apos |-> 24, astride |-> 22]
       [] v = 16 -> [apos |-> 24, astride |-> 24]
       [] v = 17 -> [apos |-> 28, astride |-> 24]
       [] v = 18 -> [apos |-> 28, astride |-> 26]
       [] v = 19 -> [apos |-> 28, astride |-> 28]
       [] v = 20 -> [apos |-> 32, astride |-> 28]
       [] v = 21 -> [apos |-> 26, astride |-> 22]
       [] v = 22 -> [apos |-> 24, astride |-> 24]
       [] v = 23 -> [apos |-> 28, astride |-> 24]
       [] v = 24 -> [apos |-> 26, astride |-> 26]
       [] v = 25 -> [apos |-> 30, astride |-> 26]
       [] v = 26 -> [apos |-> 28, astride |-> 28]
       [] v = 27 -> [apos |-> 32, astride |-> 28]
       [] v = 28 -> [apos |-> 24, astride |-> 24]
       [] v = 29 -> [apos |-> 28, astride |-> 24]
       [] v = 30 -> [apos |-> 24, astride |-> 26]
       [] v = 31 -> [apos |-> 28, astride |-> 26]
       [] v = 32 -> [apos |-> 32, astride |-> 26]
       [] v = 33 -> [apos |-> 28, astride |-> 28]
       [] v = 34 -> [apos |-> 32, astride |-> 28]
       [] v = 35 -> [apos |-> 28, astride |-> 24]
       [] v = 36 -> [apos |-> 22, astride |-> 26]
       [] v = 37 -> [apos |-> 26, astride |-> 26]
       [] v = 38 -> [apos |-> 30, astride |-> 26]
       [] v = 39 -> [apos |-> 24, astride |-> 28]
       [] v = 40 -> [apos |-> 28, astride |-> 28]]

(***************************************************************************)
(* Geometry: posBox, alignBox, vplan.                                      *)
(***************************************************************************)
\* len(m)
GridLen(m) == Cardinality(DOMAIN m)

\* the pixel posBox writes at (dx, dy) of the 7x7 box
PosBoxPixel(dx, dy) ==
  IF \/ dx = 0 \/ dx = 6 \/ dy = 0 \/ dy = 6
     \/ (2 <= dx /\ dx <= 4 /\ 2 <= dy /\ dy <= 4)
  THEN OrBlack(RolePixel(Position))
  ELSE RolePixel(Position)

\* first loop of posBox: the box
PosBoxFill(m, x, y) ==
  [r \in DOMAIN m |->
     IF y <= r /\ r <= y + 6
     THEN [c \in DOMAIN m[r] |->
             IF x <= c /\ c <= x + 6 THEN PosBoxPixel(c - x, r - y) ELSE m[r][c]]
     ELSE m[r]]

\* second loop of posBox: the white border left and right of the box
PosBoxSides(m, x, y) ==
  [r \in DOMAIN m |->
     IF y - 1 <= r /\ r <= y + 7
     THEN [c \in DOMAIN m[r] |->
             IF \/ (x > 0 /\ c = x - 1)
                \/ (x + 7 < GridLen(m) /\ c = x + 7)
             THEN RolePixel(Position)
             ELSE m[r][c]]
     ELSE m[r]]

\* third loop of posBox: the white border above and below the box
PosBoxEnds(m, x, y) ==
  [r \in DOMAIN m |->
     IF \/ (y > 0 /\ r = y - 1)
        \/ (y + 7 < GridLen(m) /\ r = y + 7)
     THEN [c \in DOMAIN m[r] |->
             IF x - 1 <= c /\ c <= x + 7 THEN RolePixel(Position) ELSE m[r][c]]
     ELSE m[r]]

posBox(m, x, y) == PosBoxEnds(PosBoxSides(PosBoxFill(m, x, y), x, y), x, y)

\* AlignBoxPixel with the centre cell left light
AlignBoxPixelNoCentre(dx, dy) ==
  IF dx = 0 \/ dx = 4 \/ dy = 0 \/ dy = 4
  THEN OrBlack(RolePixel(Alignment))
  ELSE RolePixel(Alignment)

\* the pixel alignBox writes at (dx, dy) of the 5x5 box
AlignBoxPixel(dx, dy) ==
  IF \/ dx = 0 \/ dx = 4 \/ dy = 0 \/ dy = 4
     \/ (dx = 2 /\ dy = 2)
  THEN OrBlack(RolePixel(Alignment))
  ELSE RolePixel(Alignment)

\* VSize off by one
VSizeShort(v) == 16 + v * 4

\* siz := 17 + int(v)*4
VSize(v) == 17 + v * 4

\* m := make([][]Pixel, siz) over a zeroed backing array
NewGrid(siz) == [r \in 0..(siz - 1) |-> [c \in 0..(siz - 1) |-> 0]]

ti == 6

\* the pixel the timing loop computes for index i
TimingPixel(i) ==
  IF i % 2 = 0 THEN OrBlack(RolePixel(Timing)) ELSE RolePixel(Timing)

\* the timing loop: m[i][ti] = p; m[ti][i] = p for every i
TimingStrips(m) ==
  [r \in DOMAIN m |->
     IF r = ti
     THEN [c \in DOMAIN m[r] |-> TimingPixel(c)]
     ELSE [m[r] EXCEPT ![ti] = TimingPixel(r)]]

\* AlignSkip without the clause for the bottom-left finder
AlignSkipTwoCorners(x, y, siz) ==
  \/ (x < 7 /\ y < 7)
  \/ (x + 5 >= siz - 7 /\ y < 7)

\* the condition under which the alignment loop draws no box at (x, y)
AlignSkip(x, y, siz) ==
  \/ (x < 7 /\ y < 7)
  \/ (x < 7 /\ y + 5 >= siz - 7)
  \/ (x + 5 >= siz - 7 /\ y < 7)

\* the step of both alignment loops
AlignNext(z, v) == IF z = 4 THEN vtab[v].apos ELSE z + vtab[v].astride

RECURSIVE AlignAxis(_, _)
\* the values a loop variable takes, for z := 4; z+5 < siz; z = AlignNext
\* (both loops of the alignment pass run over the same values)
AlignAxis(z, v) ==
  IF z + 5 < VSize(v) THEN {z} \cup AlignAxis(AlignNext(z, v), v) ELSE {}

MaxOf(S) == CHOOSE a \in S : \A b \in S : b <= a

\* the alignment pass: every (x, y) of the two nested loops that is not
\* skipped gets alignBox(m, x, y), which writes m[y+dy][x+dx] for dx, dy in
\* 0..4.  The loops run x outermost, both upwards, so the box that wrote a
\* cell last is the one with the largest x, then the largest y.
AlignAll(m, v) ==
  LET axis == AlignAxis(4, v)
  IN [r \in DOMAIN m |->
        LET ys == {y \in axis : y <= r /\ r <= y + 4}
        IN IF ys = {}
           THEN m[r]
           ELSE [c \in DOMAIN m[r] |->
                   LET xs == {x \in axis :
                                /\ x <= c /\ c <= x + 4
                                /\ \E y \in ys : ~AlignSkip(x, y, VSize(v))}
                   IN IF xs = {}
                      THEN m[r][c]
                      ELSE LET x == MaxOf(xs)
                               y == MaxOf({yy \in ys : ~AlignSkip(x, yy, VSize(v))})
                           IN AlignBoxPixel(c - x, r - y)]]

\* the grid of a successful vplan(v)
vplanGrid(v) ==
  LET siz == VSize(v)
      m0 == TimingStrips(NewGrid(siz))
      m1 == posBox(m0, 0, 0)
      m2 == posBox(m1, siz - 7, 0)
      m3 == posBox(m2, 0, siz - 7)
  IN AlignAll(m3, v)

(***************************************************************************)
(* Format: fplan.                                                          *)
(***************************************************************************)
formatPoly == 1335
invert == 21522

\* fb after the first two statements: level and mask bits
FormatInfo(l, m) == Shl(U32(XorOne(l)), 13) \cup Shl(U32(m), 10)

RECURSIVE FormatRemShort(_, _)
\* FormatRem with the loop stopping one bit early, i > 10
FormatRemShort(rem, i) ==
  IF i > 10
  THEN FormatRemShort(IF i \in rem THEN XorBits(rem, Shl(U32(formatPoly), i - 10)) ELSE rem,
                      i - 1)
  ELSE rem

RECURSIVE FormatRem(_, _)
\* the division loop, for i := 14; i >= 10; i--
FormatRem(rem, i) ==
  IF i >= 10
  THEN FormatRem(IF i \in rem THEN XorBits(rem, Shl(U32(formatPoly), i - 10)) ELSE rem,
                 i - 1)
  ELSE rem

\* fb after fb |= rem
FormatBits(l, m) == FormatInfo(l, m) \cup FormatRem(FormatInfo(l, m), 14)

\* the pixel of format bit i
FormatPixel(fb, i) ==
  LET p0 == RolePixel(Format) + OffsetPixel(i)
      p1 == IF i \in fb THEN OrBlack(p0) ELSE p0
  IN IF i \in U32(invert) THEN XorInvertBlack(p1) ELSE p1

\* TopLeft with bit 8 placed on the corner cell that bit 7 already holds
TopLeftCorner(i) ==
  IF i < 6 THEN <<i, 8>>
  ELSE IF i < 8 THEN <<i + 1, 8>>
  ELSE IF i < 9 THEN <<8, 8>>
  ELSE <<8, 14 - i>>

\* the cell <<row, column>> of the first switch (top left)
TopLeft(i) ==
  IF i < 6 THEN <<i, 8>>
  ELSE IF i < 8 THEN <<i + 1, 8>>
  ELSE IF i < 9 THEN <<8, 7>>
  ELSE <<8, 14 - i>>

\* BottomRight with the horizontal run one row too high
BottomRightRow7(i, siz) ==
  IF i < 8 THEN <<7, siz - 1 - i>>
  ELSE <<siz - 1 - (14 - i), 8>>

\* the cell <<row, column>> of the second switch (bottom right)
BottomRight(i, siz) ==
  IF i < 8 THEN <<8, siz - 1 - i>>
  ELSE <<siz - 1 - (14 - i), 8>>

\* p.Pixel[rc[1]][rc[2]] = pix
SetPixel(m, rc, pix) == [m EXCEPT ![rc[1]][rc[2]] = pix]

RECURSIVE FormatLoop(_, _, _)
\* the placement loop, for i := 0; i < 15; i++
FormatLoop(m, fb, i) ==
  IF i < 15
  THEN FormatLoop(SetPixel(SetPixel(m, TopLeft(i), FormatPixel(fb, i)),
                           BottomRight(i, GridLen(m)), FormatPixel(fb, i)),
                  fb, i + 1)
  ELSE m

fplanGrid(l, m, grid) == FormatLoop(grid, FormatBits(l, m), 0)

(***************************************************************************)
(* Mask: mfunc, mplan.                                                     *)
(***************************************************************************)
mfunc(k, i, j) ==
  CASE k = 0 -> (i + j) % 2 = 0
    [] k = 1 -> i % 2 = 0
    [] k = 2 -> j % 3 = 0
    [] k = 3 -> (i + j) % 3 = 0
    [] k = 4 -> ((i \div 2) + (j \div 3)) % 2 = 0
    [] k = 5 -> ((i * j) % 2) + ((i * j) % 3) = 0
    [] k = 6 -> (((i * j) % 2) + ((i * j) % 3)) % 2 = 0
    [] k = 7 -> (((i * j) % 3) + ((i + j) % 2)) % 2 = 0

\* the double loop of mplan: y ranges over rows, x over the cells of a row
mplanGrid(k, grid) ==
  [y \in DOMAIN grid |->
     [x \in DOMAIN grid[y] |->
        IF (Role(grid[y][x]) = Data \/ Role(grid[y][x]) = Check) /\ mfunc(k, x, y)
        THEN OrInvert(grid[y][x])
        ELSE grid[y][x]]]

(***************************************************************************)
(* State.                                                                  *)
(***************************************************************************)
VARIABLES
  pc,       \* the stage NewPlan is about to run, "done" or "panic"
  version,  \* argument of NewPlan
  level,    \* argument of NewPlan
  mask,     \* argument of NewPlan
  plan,     \* the fields Version, Level, Mask of the Plan p
  Pixel,    \* p.Pixel, <<>> while not allocated
  ret       \* what NewPlan returned: "none" yet, "plan" or "error" (nil Plan)

vars == <<pc, version, level, mask, plan, Pixel, ret>>

Versions == (MinVersion - OutOfRange)..(MaxVersion + OutOfRange)
Levels == (0 - OutOfRange)..(3 + OutOfRange)
Masks == (0 - OutOfRange)..(7 + OutOfRange)

ZeroPlan == [Version |-> 0, Level |-> 0, Mask |-> 0]

Init ==
  /\ pc = "call"
  /\ version = 0
  /\ level = 0
  /\ mask = 0
  /\ plan = ZeroPlan
  /\ Pixel = <<>>
  /\ ret = "none"

\* a call NewPlan(v, l, k)
NewPlan ==
  /\ pc = "call"
  /\ \E v \in Versions, l \in Levels, k \in Masks :
       /\ version' = v
       /\ level' = l
       /\ mask' = k
  /\ pc' = "vplan"
  /\ UNCHANGED <<plan, Pixel, ret>>

\* p, err := vplan(version); the error is returned by NewPlan with a nil Plan
VPlan ==
  /\ pc = "vplan"
  /\ plan' = [plan EXCEPT !.Version = version]
  /\ IF version < MinVersion \/ version > MaxVersion
     THEN /\ pc' = "done"
          /\ ret' = "error"
          /\ Pixel' = Pixel
     ELSE /\ pc' = "fplan"
          /\ ret' = ret
          /\ Pixel' = vplanGrid(version)
  /\ UNCHANGED <<version, level, mask>>

\* fplan(level, mask, p)
FPlan ==
  /\ pc = "fplan"
  /\ Pixel' = fplanGrid(level, mask, Pixel)
  /\ pc' = "lplan"
  /\ UNCHANGED <<version, level, mask, plan, ret>>

\* lplan(level, p)
LPlan ==
  /\ pc = "lplan"
  /\ plan' = [plan EXCEPT !.Level = level]
  /\ pc' = "mplan"
  /\ UNCHANGED <<version, level, mask, Pixel, ret>>

\* mplan(mask, p): mfunc[m] is a bounds-checked index; then NewPlan returns p
MPlan ==
  /\ pc = "mplan"
  /\ IF mask < 0 \/ mask > 7
     THEN /\ pc' = "panic"
          /\ UNCHANGED <<plan, Pixel, ret>>
     ELSE /\ plan' = [plan EXCEPT !.Mask = mask]
          /\ Pixel' = mplanGrid(mask, Pixel)
          /\ pc' = "done"
          /\ ret' = "plan"
  /\ UNCHANGED <<version, level, mask>>

Next == NewPlan \/ VPlan \/ FPlan \/ LPlan \/ MPlan

Spec == Init /\ [][Next]_vars

(***************************************************************************)
(* mplan on its own: a grid of side 1..MaskSide whose rows each hold one   *)
(* of a few sample pixels, and any mask id.                                *)
(***************************************************************************)
SamplePixels ==
  { 0,
    RolePixel(Data),
    RolePixel(Check) + Black,
    RolePixel(Format) + OffsetPixel(3) + Invert }

MaskGrids ==
  UNION { { [r \in 0..(n - 1) |-> [c \in 0..(n - 1) |-> kind[r]]] :
              kind \in [0..(n - 1) -> SamplePixels] } : n \in 1..MaskSide }

InitMask ==
  /\ pc = "mplan"
  /\ version = 0
  /\ level = 0
  /\ mask \in Masks
  /\ plan = ZeroPlan
  /\ Pixel \in MaskGrids
  /\ ret = "none"

NextMask == MPlan

SpecMask == InitMask /\ [][NextMask]_vars

(***************************************************************************)
(* Vocabulary of the properties.                                           *)
(***************************************************************************)
Returned == pc = "done" /\ ret = "plan"

\* fplan has just returned
AfterFormat == pc = "lplan"

ValidVersion == version >= 1 /\ version <= 40
ValidLevel == level >= 0 /\ level <= 3
ValidMask == mask >= 0 /\ mask <= 7

Cells(m) == (DOMAIN m) \X (DOMAIN m)

At(m, rc) == m[rc[1]][rc[2]]

\* the cells <<row, column>> of role Format
FormatCells(m) ==
  UNION { { <<r, c>> : c \in {cc \in DOMAIN m[r] : Role(m[r][cc]) = Format} } :
            r \in DOMAIN m }

\* the bits k whose format cells are black
DrawnWord(m) ==
  LET fc == FormatCells(m)
  IN {k \in 0..14 : \E rc \in fc : Offset(At(m, rc)) = k /\ IsBlack(At(m, rc))}

\* the codeword: the drawn word with the 0x5412 XOR reversed
Codeword(m) == XorBits(DrawnWord(m), U32(21522))

\* the value of bits lo..hi of a word
Field(w, lo, hi) == {k - lo : k \in {b \in w : b >= lo /\ b <= hi}}

MaxBit(w) == CHOOSE b \in w : \A c \in w : c <= b

RECURSIVE PolyRem(_)
\* remainder of the polynomial w modulo the generator 0x537 over GF(2)
PolyRem(w) ==
  IF w = {} \/ MaxBit(w) < 10
  THEN w
  ELSE PolyRem(XorBits(w, Shl(U32(1335), MaxBit(w) - 10)))

\* the two-bit code of the levels 0..3 = L, M, Q, H
LevelCode == [l \in 0..3 |-> IF l = 0 THEN 1 ELSE IF l = 1 THEN 0 ELSE IF l = 2 THEN 3 ELSE 2]

C2_NamedLevelCodes ==
  \A nm \in {"L", "M", "Q", "H"} :
    LET value == CASE nm = "L" -> L [] nm = "M" -> M [] nm = "Q" -> Q [] nm = "H" -> H
        code == CASE nm = "L" -> 1 [] nm = "M" -> 0 [] nm = "Q" -> 3 [] nm = "H" -> 2
    IN (AfterFormat /\ level = value /\ ValidMask) =>
         /\ Field(Codeword(Pixel), 13, 14) = NatBits(code)
         /\ Field(Codeword(Pixel), 10, 12) = NatBits(mask)
         /\ (nm = "M" /\ mask = 0) =>
              /\ Codeword(Pixel) = {}
              /\ DrawnWord(Pixel) = U32(21522)

(***************************************************************************)
(* C3: format round trip.  For every level 0..3 and mask 0..7 the word     *)
(* read from the black flags of the format cells, XORed with 0x5412, has   *)
(* the info bits (level code, mask id) on top and remainder zero modulo    *)
(* the generator 0x537.                                                    *)
(***************************************************************************)
C3_FormatRoundTrip ==
  (AfterFormat /\ ValidLevel /\ ValidMask) =>
    LET w == Codeword(Pixel)
    IN /\ Field(w, 10, 14) = NatBits(LevelCode[level] * 8 + mask)
       /\ PolyRem(w) = {}

C3_Witness ==
  /\ AfterFormat
  /\ level = 2
  /\ mask = 5
  /\ Field(Codeword(Pixel), 10, 14) = NatBits(29)
  /\ Field(Codeword(Pixel), 0, 9) # {}

(***************************************************************************)
(* C4: after NewPlan succeeds exactly 30 cells have role Format: for each  *)
(* offset 0..14 two distinct cells, one on the top-left path and one on    *)
(* the mirrored path, with identical black and invert flags.               *)
(***************************************************************************)
C4_FormatTwice ==
  Returned =>
    LET fc == FormatCells(Pixel)
        siz == Cardinality(DOMAIN Pixel)
    IN /\ Cardinality(fc) = 30
       /\ \A k \in 0..14 :
            LET ck == {rc \in fc : Offset(At(Pixel, rc)) = k}
            IN /\ Cardinality(ck) = 2
               /\ Cardinality({rc \in ck : rc[1] <= 8 /\ rc[2] <= 8}) = 1
               /\ Cardinality({rc \in ck : rc[1] >= siz - 8 \/ rc[2] >= siz - 8}) = 1
               /\ \A a, b \in ck :
                    /\ IsBlack(At(Pixel, a)) = IsBlack(At(Pixel, b))
                    /\ IsInvert(At(Pixel, a)) = IsInvert(At(Pixel, b))

C4_Witness ==
  /\ Returned
  /\ version = 7
  /\ level = 3
  /\ mask = 6
  /\ Cardinality(FormatCells(Pixel)) = 30

(***************************************************************************)
(* C5: mplan sets the invert flag of a Data or Check cell at row r,        *)
(* column c exactly when the mask formula with i = r and j = c is true,    *)
(* and changes nothing else.                                               *)
(***************************************************************************)
MaskFormula(k, i, j) ==
  CASE k = 0 -> (i + j) % 2 = 0
    [] k = 1 -> i % 2 = 0
    [] k = 2 -> j % 3 = 0
    [] k = 3 -> (i + j) % 3 = 0
    [] k = 4 -> ((i \div 2) + (j \div 3)) % 2 = 0
    [] k = 5 -> ((i * j) % 2) + ((i * j) % 3) = 0
    [] k = 6 -> (((i * j) % 2) + ((i * j) % 3)) % 2 = 0
    [] k = 7 -> (((i * j) % 3) + ((i + j) % 2)) % 2 = 0

MaskStepRowColumn ==
  (pc = "mplan" /\ pc' = "done") =>
    \A rc \in Cells(Pixel) :
      At(Pixel', rc) =
        IF Role(At(Pixel, rc)) \in {Data, Check} /\ MaskFormula(mask, rc[1], rc[2])
        THEN OrInvert(At(Pixel, rc))
        ELSE At(Pixel, rc)

C5_MaskByRowColumn == [][MaskStepRowColumn]_vars

(***************************************************************************)
(* C6: in the returned grid each corner zone (7x7 finder box plus its      *)
(* in-bounds border) holds only Position cells, black on the outer ring    *)
(* and the 3x3 centre, light on the middle ring and the border.            *)
(***************************************************************************)
Abs(n) == IF n < 0 THEN 0 - n ELSE n

\* distance in rings of cell rc from the centre of the box with corner <<x, y>>
Ring(rc, x, y) ==
  LET dr == Abs(rc[1] - (y + 3))
      dc == Abs(rc[2] - (x + 3))
  IN IF dr > dc THEN dr ELSE dc

Corners(siz) == {<<0, 0>>, <<siz - 7, 0>>, <<0, siz - 7>>}

C6_FinderZones ==
  Returned =>
    LET siz == Cardinality(DOMAIN Pixel)
    IN \A xy \in Corners(siz) :
         \A rc \in ((xy[2] - 1)..(xy[2] + 7)) \X ((xy[1] - 1)..(xy[1] + 7)) :
           (rc \in Cells(Pixel)) =>
             /\ Role(At(Pixel, rc)) = Position
             /\ ~IsInvert(At(Pixel, rc))
             /\ IsBlack(At(Pixel, rc)) <=> Ring(rc, xy[1], xy[2]) \in {0, 1, 3}

C6_Witness ==
  /\ Returned
  /\ version = 2
  /\ Role(Pixel[16][16]) = Alignment
  /\ IsBlack(Pixel[0][18])
  /\ ~IsBlack(Pixel[7][17])

(***************************************************************************)
(* C7: in the returned grid every cell not occupied by a position,         *)
(* alignment, timing or format pattern has role Data or Check; none is     *)
(* left without a role.                                                    *)
(***************************************************************************)
C7_PayloadMarked ==
  Returned =>
    \A r \in DOMAIN Pixel :
      \A c \in DOMAIN Pixel[r] :
        Role(Pixel[r][c]) \notin {Position, Alignment, Timing, Format} =>
          Role(Pixel[r][c]) \in {Data, Check}

(***************************************************************************)
(* C8: with a valid version, a level outside 0..3 or a mask id outside     *)
(* 0..7 makes NewPlan fault; it never returns a Plan.                      *)
(***************************************************************************)
C8_RangeFaults ==
  (ValidVersion /\ (~ValidLevel \/ ~ValidMask)) => ~Returned

(***************************************************************************)
(* C9: the stages after vplan leave every Position, Alignment and Timing   *)
(* cell exactly as vplan returned it; fplan writes only cells that have no *)
(* role.                                                                   *)
(***************************************************************************)
LaterStageStep ==
  (pc \in {"fplan", "lplan", "mplan"}) =>
    /\ DOMAIN Pixel' = DOMAIN Pixel
    /\ \A r \in DOMAIN Pixel :
         \/ Pixel'[r] = Pixel[r]
         \/ /\ DOMAIN Pixel'[r] = DOMAIN Pixel[r]
            /\ \A c \in DOMAIN Pixel[r] :
                 /\ Role(Pixel[r][c]) \in {Position, Alignment, Timing} =>
                      Pixel'[r][c] = Pixel[r][c]
                 /\ Pixel'[r][c] # Pixel[r][c] => Role(Pixel[r][c]) = 0

C9_GeometryKept == [][LaterStageStep]_vars

C9_Witness ==
  /\ Returned
  /\ version = 7
  /\ Role(Pixel[6][8]) = Timing
  /\ Role(Pixel[7][8]) = Format
  /\ Role(Pixel[7][7]) = Position
  /\ Role(Pixel[8][20]) = Alignment
  /\ Role(Pixel[8][37]) = Format

(***************************************************************************)
(* C10: in the returned grid every cell of row 6 and of column 6 outside   *)
(* the finder boxes is black exactly at even index, with invert clear,     *)
(* whatever pattern owns the cell.                                         *)
(***************************************************************************)
C10_TimingAlternates ==
  Returned =>
    LET siz == Cardinality(DOMAIN Pixel)
    IN \A i \in 7..(siz - 8) :
         /\ IsBlack(Pixel[6][i]) <=> (i % 2 = 0)
         /\ ~IsInvert(Pixel[6][i])
         /\ IsBlack(Pixel[i][6]) <=> (i % 2 = 0)
         /\ ~IsInvert(Pixel[i][6])

C10_Witness ==
  /\ Returned
  /\ version = 14
  /\ Role(Pixel[6][26]) = Alignment
  /\ IsBlack(Pixel[6][26])
  /\ Role(Pixel[6][7]) = Position
  /\ Role(Pixel[6][30]) = Timing

====
